---------------------------- MODULE Spec2Model ----------------------------
(***************************************************************************)
(* Model of src/main.py: a FastAPI application with three endpoints        *)
(* (POST /register, POST /login, POST /chat) over a MongoDB collection of  *)
(* users, HS256 bearer tokens and an external chat-completion provider.    *)
(*                                                                         *)
(* The handlers are synchronous (plain def), so the framework runs each    *)
(* request on a thread of its pool; requests interleave at their accesses  *)
(* to the shared collection.  A worker is one such thread.  A handler's    *)
(* step is atomic from one access of shared state (the collection, the     *)
(* provider) to the next.                                                  *)
(*                                                                         *)
(* Time is counted in hours, the unit of create_jwt's expires_hours.       *)
(***************************************************************************)
EXTENDS Integers, Sequences, FiniteSets, TLC

\* ------------------------------------------------------------- bounds
NumWorkers == 2
MaxRequests == 3
MaxTime == 3

Workers == 1..NumWorkers

\* ------------------------------------------------------------- inputs
Emails == {"ana@x.com", "bob@x.com"}
Passwords == {"p1", "p2"}
\* The register bodies tried: two users of distinct emails, and a third body
\* that reuses the first one's email under another name and password.
Registrations ==
    {[name |-> "Ana", email |-> "ana@x.com", password |-> "p1"],
     [name |-> "Bob", email |-> "bob@x.com", password |-> "p1"],
     [name |-> "Bob", email |-> "ana@x.com", password |-> "p2"]}
Messages == {"hi"}
Replies == {"hello"}
ProviderErrors == {"quota exceeded"}

\* ------------------------------------------------------------- configuration
SECRET_KEY == "server-secret"
\* A key that is not the server's: what a forger signs with.
OtherKey == "other-secret"
expires_hours == 2

VARIABLES
    users_col,   \* the users collection: the documents in insertion order
    now,         \* datetime.utcnow(), in hours
    issued,      \* the tokens login responses have handed to clients
    pc,          \* per worker: where its handler stands ("ready": serving nothing)
    req,         \* per worker: the request it is serving
    user,        \* per worker: the handler's local existing / user (find_one's result)
    store_ops,   \* per worker: the collection operations done for req so far
    last         \* the exchange completed last: its number, request, response,
                 \* and the collection operations and provider calls made for it

vars == <<users_col, now, issued, pc, req, user, store_ops, last>>

\* ------------------------------------------------------------- the collection
\* find_one({"email": email}): the first matching document, or None.
\* The result is a set: {} is None, {doc} is the document.
find_one(col, email) ==
    LET hits == {i \in 1..Len(col) : col[i].email = email}
    IN  IF hits = {} THEN {}
        ELSE {col[CHOOSE i \in hits : \A j \in hits : i <= j]}

\* insert_one(doc) with a replace-by-key (upsert) in place of the append.
insert_one_upsert(col, doc) ==
    LET hits == {i \in 1..Len(col) : col[i].email = doc.email}
    IN  IF hits = {} THEN Append(col, doc)
        ELSE [i \in 1..Len(col) |-> IF i \in hits THEN doc ELSE col[i]]

\* insert_one(doc): appends the document; the collection has no unique index.
insert_one(col, doc) == Append(col, doc)

\* ------------------------------------------------------------- tokens
\* HMAC-SHA256 as an ideal MAC: two tags are equal exactly when the message
\* and the key are.
HS256(payload, key) == [msg |-> payload, key |-> key]

\* jwt.encode(payload, key, algorithm="HS256")
jwt_encode(payload, key) ==
    [wellformed |-> TRUE, payload |-> payload, sig |-> HS256(payload, key)]

NoPayload == [email |-> "", exp |-> 0, iat |-> 0]

\* A bearer string that is not a JWT at all.
Garbage == [wellformed |-> FALSE, payload |-> NoPayload, sig |-> HS256(NoPayload, "")]

\* create_jwt with the timedelta left out of exp.
create_jwt_no_delta(email, t) ==
    jwt_encode([email |-> email, exp |-> t, iat |-> t], SECRET_KEY)

\* create_jwt(email) at time t.
create_jwt(email, t) ==
    jwt_encode([email |-> email, exp |-> t + expires_hours, iat |-> t], SECRET_KEY)

\* jwt.decode with the signature left unverified.
jwt_decode_unverified(token, key, t) ==
    IF ~token.wellformed
    THEN [error |-> "InvalidTokenError", payload |-> NoPayload]
    ELSE IF token.payload.exp <= t
    THEN [error |-> "ExpiredSignatureError", payload |-> NoPayload]
    ELSE [error |-> "", payload |-> token.payload]

\* jwt.decode(token, key, algorithms=["HS256"]) at time t: the structure and the
\* signature are verified first, then exp.
jwt_decode(token, key, t) ==
    IF ~token.wellformed \/ token.sig # HS256(token.payload, key)
    THEN [error |-> "InvalidTokenError", payload |-> NoPayload]
    ELSE IF token.payload.exp <= t
    THEN [error |-> "ExpiredSignatureError", payload |-> NoPayload]
    ELSE [error |-> "", payload |-> token.payload]

\* HTTPException(status_code, detail) as the response of the request.
HTTPException(status, detail) ==
    [status |-> status, detail |-> detail, token |-> {}, user |-> "", reply |-> ""]

\* A handler's returned dict, sent with status 200.
Returned(detail, token, name, reply) ==
    [status |-> 200, detail |-> detail, token |-> token, user |-> name, reply |-> reply]

NoResponse == [status |-> 0, detail |-> <<>>, token |-> {}, user |-> "", reply |-> ""]

\* decode_jwt with `except jwt.ExpiredSignatureError` left out: the expiry is
\* then caught as an InvalidTokenError, of which it is a subclass.
decode_jwt_no_expired_clause(token, t) ==
    LET r == jwt_decode(token, SECRET_KEY, t)
    IN  IF r.error # ""
        THEN [status |-> 401, detail |-> <<"Invalid token">>, payload |-> NoPayload]
        ELSE [status |-> 200, detail |-> <<>>, payload |-> r.payload]

\* decode_jwt(token) at time t: the payload (status 200), or the HTTPException raised.
decode_jwt(token, t) ==
    LET r == jwt_decode(token, SECRET_KEY, t)
    IN  IF r.error = "ExpiredSignatureError"
        THEN [status |-> 401, detail |-> <<"Token expired">>, payload |-> NoPayload]
        ELSE IF r.error = "InvalidTokenError"
        THEN [status |-> 401, detail |-> <<"Invalid token">>, payload |-> NoPayload]
        ELSE [status |-> 200, detail |-> <<>>, payload |-> r.payload]


\* ------------------------------------------------------------- requests
\* RegisterRequest(name, email, password), as validated by the framework.
RegisterRequest(name, email, password) ==
    [kind |-> "register", name |-> name, email |-> email, password |-> password,
     message |-> "", has_bearer |-> FALSE, token |-> Garbage]

\* LoginRequest(email, password).
LoginRequest(email, password) ==
    [kind |-> "login", name |-> "", email |-> email, password |-> password,
     message |-> "", has_bearer |-> FALSE, token |-> Garbage]

\* ChatRequest(message), with the Authorization header the request came with.
ChatRequest(message, has_bearer, token) ==
    [kind |-> "chat", name |-> "", email |-> "", password |-> "",
     message |-> message, has_bearer |-> has_bearer, token |-> token]

NoRequest ==
    [kind |-> "none", name |-> "", email |-> "", password |-> "",
     message |-> "", has_bearer |-> FALSE, token |-> Garbage]

\* The bearer strings a client can present: the tokens it was issued, a string
\* that is no JWT, an issued token re-signed with another key or with its email
\* claim altered under the old signature, and a token forged with another key.
Presentable ==
    issued
    \cup {Garbage}
    \cup {jwt_encode(t.payload, OtherKey) : t \in issued}
    \cup {[t EXCEPT !.payload.email = e] : t \in issued, e \in Emails}
    \cup {jwt_encode([email |-> e, exp |-> now + expires_hours, iat |-> now], OtherKey) :
            e \in Emails}

\* The statuses HTTPBearer(auto_error=True) answers a request without bearer
\* credentials with: 403 in the framework's older releases, 401 in its newer ones.
HTTPBearerStatus == {401, 403}


\* ------------------------------------------------------------- exchanges
\* A completed exchange: request r, answered with response, after the
\* collection operations ops and the provider calls made (each with what the
\* provider came back with).
Exchange(seq, r, response, ops, made) ==
    [seq |-> seq, req |-> r, resp |-> response, store_ops |-> ops, calls |-> made]

\* The requests being served.
InFlight == Cardinality({p \in Workers : pc[p] # "ready"})

\* Worker p is free to take a request off the socket.
CanAccept(p) ==
    /\ pc[p] = "ready"
    /\ last.seq + InFlight < MaxRequests

\* Worker p goes on serving request r at label, with local found.
Proceed(p, label, r, found, ops) ==
    /\ pc' = [pc EXCEPT ![p] = label]
    /\ req' = [req EXCEPT ![p] = r]
    /\ user' = [user EXCEPT ![p] = found]
    /\ store_ops' = [store_ops EXCEPT ![p] = ops]
    /\ last' = last

\* Worker p sends the response of the request it accepted in this very step.
Answer(r, response, ops) ==
    /\ last' = Exchange(last.seq + 1, r, response, ops, <<>>)
    /\ UNCHANGED <<pc, req, user, store_ops>>

\* Worker p sends the response of the request it has been serving.
Finish(p, response, ops, made) ==
    /\ last' = Exchange(last.seq + 1, req[p], response, ops, made)
    /\ pc' = [pc EXCEPT ![p] = "ready"]
    /\ req' = [req EXCEPT ![p] = NoRequest]
    /\ user' = [user EXCEPT ![p] = {}]
    /\ store_ops' = [store_ops EXCEPT ![p] = <<>>]

\* ------------------------------------------------------------- POST /register
\* `if existing:` with the check left out.
email_taken_unchecked(existing) == FALSE

\* `if existing:`
email_taken(existing) == existing # {}

\* user_doc
user_doc(r) == [name |-> r.name, email |-> r.email, password |-> r.password]

\* register_user up to its raise or its insert_one: the find_one and the test.
register_user_find(p) ==
    \E body \in Registrations :
        LET r == RegisterRequest(body.name, body.email, body.password)
            existing == find_one(users_col, r.email)
        IN  /\ CanAccept(p)
            /\ IF email_taken(existing)
               THEN Answer(r, HTTPException(400, <<"Email already registered">>),
                           <<"find_one">>)
               ELSE Proceed(p, "register_insert", r, existing, <<"find_one">>)
            /\ UNCHANGED <<users_col, now, issued>>

\* register_user from its insert_one to its return.
register_user_insert(p) ==
    /\ pc[p] = "register_insert"
    /\ users_col' = insert_one(users_col, user_doc(req[p]))
    /\ Finish(p, Returned(<<"User registered successfully">>, {}, "", ""),
              Append(store_ops[p], "insert_one"), <<>>)
    /\ UNCHANGED <<now, issued>>

\* ------------------------------------------------------------- POST /login
\* `if not user or ...` with the password comparison left out.
credentials_rejected_no_password(found, password) == found = {}

\* `if not user or user["password"] != req.password:`
credentials_rejected(found, password) ==
    found = {} \/ \E u \in found : u.password # password

\* login_user: one find_one, then the token is made locally.
login_user(p) ==
    \E e \in Emails, pw \in Passwords :
        LET r == LoginRequest(e, pw)
            found == find_one(users_col, e)
            token == create_jwt(e, now)
        IN  /\ CanAccept(p)
            /\ IF credentials_rejected(found, pw)
               THEN /\ Answer(r, HTTPException(401, <<"Invalid credentials">>),
                              <<"find_one">>)
                    /\ issued' = issued
               ELSE /\ Answer(r, Returned(<<"Login successful">>, {token}, "", ""),
                              <<"find_one">>)
                    /\ issued' = issued \cup {token}
            /\ UNCHANGED <<users_col, now>>

\* ------------------------------------------------------------- POST /chat
\* `if not user:` with the check left out.
user_missing_unchecked(found) == FALSE

\* `if not user:`
user_missing(found) == found = {}

\* The dependencies of chat, run before its body: HTTPBearer (security), then
\* get_current_user's decode_jwt, find_one and test.  The outcome is the
\* HTTPException raised (status # 200) or the user document for the handler.
authenticate(has_bearer, token, col, t, bearer_status) ==
    IF ~has_bearer
    THEN [status |-> bearer_status, detail |-> <<"Not authenticated">>,
          found |-> {}, store_ops |-> <<>>]
    ELSE LET payload == decode_jwt(token, t)
             found == find_one(col, payload.payload.email)
         IN  IF payload.status # 200
             THEN [status |-> payload.status, detail |-> payload.detail,
                   found |-> {}, store_ops |-> <<>>]
             ELSE IF user_missing(found)
             THEN [status |-> 401, detail |-> <<"User not found">>,
                   found |-> found, store_ops |-> <<"find_one">>]
             ELSE [status |-> 200, detail |-> <<>>,
                   found |-> found, store_ops |-> <<"find_one">>]

get_current_user(p) ==
    \E m \in Messages, has_bearer \in BOOLEAN, token \in Presentable,
       bearer_status \in HTTPBearerStatus :
        LET r == ChatRequest(m, has_bearer, token)
            a == authenticate(has_bearer, token, users_col, now, bearer_status)
        IN  /\ has_bearer \/ token = Garbage
            /\ CanAccept(p)
            /\ IF a.status # 200
               THEN Answer(r, HTTPException(a.status, a.detail), a.store_ops)
               ELSE Proceed(p, "chat", r, a.found, a.store_ops)
            /\ UNCHANGED <<users_col, now, issued>>

\* What openai_client.chat.completions.create can come back with: a completion
\* whose first choice holds a text, or an exception with a message.
ProviderOutcomes ==
    {[ok |-> TRUE, text |-> r] : r \in Replies}
    \cup {[ok |-> FALSE, text |-> e] : e \in ProviderErrors}

\* One create call: its arguments, and what came back.
completion_call(u, message, out) ==
    [model |-> "gpt-4o-mini",
     system |-> <<"You are a helpful assistant for user ", u.name, ".">>,
     user |-> message,
     outcome |-> out]

\* The dict chat returns, with the user's email in place of the name.
chat_returned_email(u, reply) == Returned(<<>>, {}, u.email, reply)

\* The dict chat returns.
chat_returned(u, reply) == Returned(<<>>, {}, u.name, reply)

\* The response chat makes of the create call's outcome.
chat_response(u, out) ==
    IF out.ok THEN chat_returned(u, out.text)
    ELSE HTTPException(500, <<"OpenAI error: ", out.text>>)

\* chat with the create call made again when it raised.
chat_retry(p) ==
    /\ pc[p] = "chat"
    /\ \E u \in user[p], first \in ProviderOutcomes, second \in ProviderOutcomes :
        IF first.ok
        THEN Finish(p, chat_response(u, first), store_ops[p],
                    <<completion_call(u, req[p].message, first)>>)
        ELSE Finish(p, chat_response(u, second), store_ops[p],
                    <<completion_call(u, req[p].message, first),
                      completion_call(u, req[p].message, second)>>)
    /\ UNCHANGED <<users_col, now, issued>>

\* chat's body: the create call and the response made of its outcome.
chat(p) ==
    /\ pc[p] = "chat"
    /\ \E u \in user[p], out \in ProviderOutcomes :
        Finish(p, chat_response(u, out), store_ops[p],
               <<completion_call(u, req[p].message, out)>>)
    /\ UNCHANGED <<users_col, now, issued>>

\* ------------------------------------------------------------- environment
\* The clock advances.
Tick ==
    /\ now < MaxTime
    /\ now' = now + 1
    /\ UNCHANGED <<users_col, issued, pc, req, user, store_ops, last>>

\* A document is removed from the collection by a client of the database other
\* than this program (the program itself holds no delete or update call).
ExternalDelete ==
    /\ \E i \in 1..Len(users_col) :
        users_col' = [j \in 1..(Len(users_col) - 1) |->
                        IF j < i THEN users_col[j] ELSE users_col[j + 1]]
    /\ UNCHANGED <<now, issued, pc, req, user, store_ops, last>>

\* ------------------------------------------------------------- specifications
Init ==
    /\ users_col = <<>>
    /\ now = 0
    /\ issued = {}
    /\ pc = [p \in Workers |-> "ready"]
    /\ req = [p \in Workers |-> NoRequest]
    /\ user = [p \in Workers |-> {}]
    /\ store_ops = [p \in Workers |-> <<>>]
    /\ last = Exchange(0, NoRequest, NoResponse, <<>>, <<>>)

\* The program: requests served concurrently by the workers.
Next ==
    \/ Tick
    \/ \E p \in Workers : register_user_find(p)
    \/ \E p \in Workers : register_user_insert(p)
    \/ \E p \in Workers : login_user(p)
    \/ \E p \in Workers : get_current_user(p)
    \/ \E p \in Workers : chat(p)

Spec == Init /\ [][Next]_vars

\* No worker is serving a request.
AllReady == \A q \in Workers : pc[q] = "ready"

\* The program with its requests arriving one after another: a request is
\* accepted only when no other is being served.
NextSeq ==
    \/ Tick
    \/ \E p \in Workers : AllReady /\ register_user_find(p)
    \/ \E p \in Workers : register_user_insert(p)
    \/ \E p \in Workers : AllReady /\ login_user(p)
    \/ \E p \in Workers : AllReady /\ get_current_user(p)
    \/ \E p \in Workers : chat(p)

SpecSeq == Init /\ [][NextSeq]_vars

\* The program beside other clients of its database.
NextEnv ==
    \/ Next
    \/ ExternalDelete

SpecEnv == Init /\ [][NextEnv]_vars

\* ------------------------------------------------------------- properties
\* A document with this email is in the collection.
EmailStored(e) == \E i \in 1..Len(users_col) : users_col[i].email = e

\* The token carries the server's signature over its own payload.
SignedByServer(tok) == tok.wellformed /\ tok.sig = HS256(tok.payload, SECRET_KEY)

\* The token is Valid at time t: the signature matches and t < exp.
TokenValid(tok, t) == SignedByServer(tok) /\ t < tok.payload.exp

\* This step completes an exchange.
Completes == last'.seq # last.seq

\* This step accepts a chat request and the gate rejects it: the exchange is
\* complete within the step and no worker moves.
GateRejects == Completes /\ last'.req.kind = "chat" /\ pc' = pc

\* This step accepts a chat request on worker p and the gate lets it through.
GatePasses(p) == pc[p] = "ready" /\ pc'[p] = "chat"

\* C1: the collection holds at most one document per email.
C1_AtMostOneUserPerEmail ==
    \A i, j \in 1..Len(users_col) :
        users_col[i].email = users_col[j].email => i = j

\* C2: with requests served one after another, a register request whose email
\* is not in the collection is answered 200 and appends exactly the document
\* {name, email, password} of the request; one whose email is in the collection
\* is answered 400 "Email already registered" and leaves the collection as it was.
C2_RegisterSequential ==
    [][(Completes /\ last'.req.kind = "register") =>
        LET r == last'.req
        IN  IF EmailStored(r.email)
            THEN /\ last'.resp = HTTPException(400, <<"Email already registered">>)
                 /\ users_col' = users_col
            ELSE /\ last'.resp.status = 200
                 /\ users_col' = Append(users_col,
                        [name |-> r.name, email |-> r.email, password |-> r.password])
      ]_vars

\* C2's case: an email was registered, and a second register of it was refused.
C2_Witness ==
    /\ last.req.kind = "register"
    /\ last.resp.status = 400
    /\ Len(users_col) = 1
    /\ users_col[1].email = last.req.email

\* C3: a login is answered 401 "Invalid credentials", with no token issued,
\* exactly when the lookup of its email finds no document or finds one whose
\* password differs from the submitted one (the same answer in both cases);
\* otherwise it is answered 200 with one token, issued in this step and signed
\* by the server.
C3_LoginOutcome ==
    [][(Completes /\ last'.req.kind = "login") =>
        LET r == last'.req
            found == find_one(users_col, r.email)
        IN  IF found = {} \/ \E u \in found : u.password # r.password
            THEN /\ last'.resp = HTTPException(401, <<"Invalid credentials">>)
                 /\ issued' = issued
            ELSE /\ last'.resp.status = 200
                 /\ Cardinality(last'.resp.token) = 1
                 /\ \A tok \in last'.resp.token :
                        /\ SignedByServer(tok)
                        /\ tok.payload.iat = now
                        /\ issued' = issued \cup {tok}
      ]_vars

\* C3's case: a login with a wrong password for an email that is stored.
C3_Witness ==
    /\ last.req.kind = "login"
    /\ last.resp = HTTPException(401, <<"Invalid credentials">>)
    /\ EmailStored(last.req.email)

\* C4: the token a successful login returns verifies, at every time from its
\* issue up to (not including) issue + expires_hours, to a claim set whose email
\* is the email submitted at login.
C4_LoginTokenRoundTrip ==
    [][(Completes /\ last'.req.kind = "login" /\ last'.resp.status = 200) =>
        /\ last'.resp.token # {}
        /\ \A tok \in last'.resp.token :
             \A t \in now..(now + expires_hours - 1) :
                /\ decode_jwt(tok, t).status = 200
                /\ decode_jwt(tok, t).payload.email = last'.req.email
      ]_vars

\* C4's case: a chat request presented an issued token an hour after its issue
\* and the gate resolved the user of the token's email.
C4_Witness ==
    \E p \in Workers :
        /\ pc[p] = "chat"
        /\ req[p].token \in issued
        /\ now > req[p].token.payload.iat
        /\ \A u \in user[p] : u.email = req[p].token.payload.email

\* C5: the gate lets a chat request through only while its token is Valid; a
\* request it rejects for its token is answered 401 "Invalid token" when the
\* structure or the signature does not match, and 401 "Token expired" when the
\* signature matches and exp has passed; and a token that fails as expired now
\* does not verify at any later time.
C5_VerifyOutcome ==
    [][/\ \A p \in Workers :
            GatePasses(p) => req'[p].has_bearer /\ TokenValid(req'[p].token, now)
       /\ (GateRejects /\ last'.req.has_bearer) =>
            LET tok == last'.req.token
            IN  IF ~SignedByServer(tok)
                THEN last'.resp = HTTPException(401, <<"Invalid token">>)
                ELSE IF tok.payload.exp <= now
                THEN last'.resp = HTTPException(401, <<"Token expired">>)
                ELSE last'.resp.detail \notin {<<"Invalid token">>, <<"Token expired">>}
       /\ \A tok \in Presentable :
            decode_jwt(tok, now).detail = <<"Token expired">> =>
                decode_jwt(tok, now').status # 200
      ]_vars

\* C5's case: an issued token was presented after its expiry and refused.
C5_Witness ==
    /\ last.req.kind = "chat"
    /\ last.req.token \in issued
    /\ last.resp = HTTPException(401, <<"Token expired">>)
    /\ now > last.req.token.payload.exp

\* C6: a chat request is let through the gate exactly when it carries a bearer
\* token that is Valid and whose email is stored; a request the gate rejects is
\* answered 401 or 403 with no provider call made; and a provider call is made
\* only by a worker serving a request the gate let through.
C6_NoProviderCallUnverified ==
    [][/\ \A p \in Workers :
            GatePasses(p) =>
                /\ req'[p].has_bearer
                /\ TokenValid(req'[p].token, now)
                /\ EmailStored(req'[p].token.payload.email)
       /\ GateRejects =>
            /\ ~(/\ last'.req.has_bearer
                 /\ TokenValid(last'.req.token, now)
                 /\ EmailStored(last'.req.token.payload.email))
            /\ last'.resp.status \in {401, 403}
            /\ last'.calls = <<>>
       /\ (Completes /\ last'.calls # <<>>) =>
            \E p \in Workers :
                pc[p] = "chat" /\ pc'[p] = "ready" /\ last'.req = req[p]
      ]_vars

\* C6's case: a chat request without a bearer token was refused, no call made.
C6_Witness ==
    /\ last.req.kind = "chat"
    /\ ~last.req.has_bearer
    /\ last.resp.status \in HTTPBearerStatus
    /\ last.calls = <<>>

\* C7: a chat request whose token is Valid but whose email is not in the
\* collection is answered 401 "User not found" with no provider call made, and
\* is never let through the gate.
C7_UserNotFound ==
    [][/\ (/\ GateRejects
           /\ last'.req.has_bearer
           /\ TokenValid(last'.req.token, now)) =>
            /\ ~EmailStored(last'.req.token.payload.email)
            /\ last'.resp = HTTPException(401, <<"User not found">>)
            /\ last'.calls = <<>>
       /\ \A p \in Workers :
            GatePasses(p) => EmailStored(req'[p].token.payload.email)
      ]_vars

\* C7's case: a token issued at login, still Valid, presented after the user's
\* document was removed.
C7_Witness ==
    /\ last.req.kind = "chat"
    /\ last.req.token \in issued
    /\ TokenValid(last.req.token, now)
    /\ last.resp = HTTPException(401, <<"User not found">>)

\* C8 as stated: every exchange made at most one collection operation, and
\* every chat exchange made exactly one provider call.
C8_Original ==
    /\ last.req.kind \in {"register", "login", "chat"} => Len(last.store_ops) <= 1
    /\ last.req.kind = "chat" => Len(last.calls) = 1

\* C8 as amended: a login or chat exchange made at most one collection
\* operation; a register exchange made one (find_one) when refused and two
\* (find_one, insert_one) when it succeeded; a chat exchange made exactly one
\* provider call when the gate let it through and none when the gate refused it;
\* register and login made no provider call.
C8_Amended ==
    /\ last.req.kind \in {"login", "chat"} => Len(last.store_ops) <= 1
    /\ last.req.kind = "register" =>
            last.store_ops =
                IF last.resp.status = 200 THEN <<"find_one", "insert_one">>
                ELSE <<"find_one">>
    /\ last.req.kind = "chat" =>
            Len(last.calls) = IF last.resp.status \in {200, 500} THEN 1 ELSE 0
    /\ last.req.kind \in {"register", "login"} => last.calls = <<>>

\* C8's case: a chat exchange whose provider call failed, answered 500.
C8_Witness ==
    /\ last.req.kind = "chat"
    /\ last.resp.status = 500
    /\ Len(last.calls) = 1

\* C9: a chat exchange the gate let through made one provider call; when the
\* call returned a text the answer is 200 {user: the name of the document found
\* for the token's email, reply: that text}; when it failed the answer is 500
\* "OpenAI error: " followed by the provider's error text.
C9_ChatResponse ==
    (last.req.kind = "chat" /\ last.resp.status \in {200, 500}) =>
        LET found == find_one(users_col, last.req.token.payload.email)
        IN  /\ Len(last.calls) = 1
            /\ found # {}
            /\ \A u \in found :
                 LET out == last.calls[1].outcome
                 IN  IF out.ok
                     THEN last.resp = [status |-> 200, detail |-> <<>>, token |-> {},
                                       user |-> u.name, reply |-> out.text]
                     ELSE last.resp =
                            HTTPException(500, <<"OpenAI error: ", out.text>>)

\* C9's case: register(Ana, ana@x.com, p1), login(ana@x.com, p1) -> T,
\* chat(hi, T) with the provider returning hello.
C9_Witness ==
    /\ users_col = <<[name |-> "Ana", email |-> "ana@x.com", password |-> "p1"]>>
    /\ last.req.kind = "chat"
    /\ last.req.message = "hi"
    /\ last.req.token \in issued
    /\ last.req.token.payload.email = "ana@x.com"
    /\ last.resp = [status |-> 200, detail |-> <<>>, token |-> {},
                    user |-> "Ana", reply |-> "hello"]

\* C10: every step leaves each stored document where and as it is; the only
\* change to the collection is one document appended by the step that completes
\* a successful register, and that document is the request's.
C10_StoreAppendOnly ==
    [][/\ Len(users_col') >= Len(users_col)
       /\ \A i \in 1..Len(users_col) : users_col'[i] = users_col[i]
       /\ users_col' # users_col =>
            /\ Completes
            /\ last'.req.kind = "register"
            /\ last'.resp.status = 200
            /\ users_col' = Append(users_col,
                   [name |-> last'.req.name, email |-> last'.req.email,
                    password |-> last'.req.password])
      ]_vars

\* C10's case: two documents stored, and a login served after them.
C10_Witness ==
    /\ Len(users_col) = 2
    /\ last.req.kind = "login"
    /\ last.resp.status = 200

============================================================================
